---- MODULE Spec2Model ----
(***************************************************************************)
(* Token authentication and time-gated authorization of the FBS backend:   *)
(* the validators, the guards authenticateToken / isAdmin / protect, the   *)
(* time-window evaluator checkLoginTime, the auth and user controllers     *)
(* and the User / LoginSession models they call.                           *)
(*                                                                         *)
(* JavaScript strings are sequences of UTF-16 code units, so that the      *)
(* relational operators on them are the lexicographic ones the code uses.  *)
(***************************************************************************)
EXTENDS Integers, Sequences, FiniteSets, TLC

VARIABLES
  users,          \* the user table: id -> row
  nextUserId,     \* the next id of the user table
  sessions,       \* the login_sessions table: id -> row
  nextSessionId,  \* the next id of the login_sessions table
  clock,          \* the wall clock, in ticks
  issued,         \* the tokens login has signed so far
  last,           \* the request just answered: what was sent, what came back
  tw,             \* an evaluation of checkLoginTime: its inputs and result
  ret,            \* the LoginSession call made on its own: what it returned
  logouts,        \* the logout requests in flight: where each is in endSession
  orders          \* the orders table: id -> row, with its status logs and RTO

vars ==
  <<users, nextUserId, sessions, nextSessionId, clock, issued, last, tw, ret,
    logouts, orders>>

(***************************************************************************)
(* JavaScript values                                                       *)
(***************************************************************************)

\* null and undefined, kept apart from every string (code units are >= 0)
Null == <<-1>>
Undefined == <<-2>>
EmptyString == <<>>

\* !value for a value that is a string, null or undefined
Falsy(v) == v = Null \/ v = Undefined \/ v = EmptyString

\* value || null
OrNull(v) == IF Falsy(v) THEN Null ELSE v

Colon == <<58>>

Digit(n) == 48 + n

IsDigit(c) == c >= 48 /\ c <= 57

Min(a, b) == IF a <= b THEN a ELSE b

\* a < b on strings: the first differing code unit decides, a proper prefix is smaller
StrLT(a, b) ==
  \E i \in 1..(Min(Len(a), Len(b)) + 1) :
    /\ \A j \in 1..(i - 1) : a[j] = b[j]
    /\ \/ (i <= Len(a) /\ i <= Len(b) /\ a[i] < b[i])
       \/ (i = Len(a) + 1 /\ i <= Len(b))

StrLE(a, b) == a = b \/ StrLT(a, b)

StrGT(a, b) == StrLT(b, a)

StrGE(a, b) == StrLE(b, a)

(***************************************************************************)
(* Time of day: <<hours, minutes, seconds>>                                *)
(***************************************************************************)

Pad2(n) == <<Digit(n \div 10), Digit(n % 10)>>

\* now.toTimeString().slice(0, 8)
ToTimeString(t) == Pad2(t[1]) \o Colon \o Pad2(t[2]) \o Colon \o Pad2(t[3])

(***************************************************************************)
(* validators: the time-of-day pattern                                     *)
(* /^([01]?[0-9]|2[0-3]):[0-5][0-9](:[0-5][0-9])?$/                        *)
(***************************************************************************)

HourPart(h) ==
  \/ (Len(h) = 1 /\ IsDigit(h[1]))
  \/ (Len(h) = 2 /\ h[1] \in {Digit(0), Digit(1)} /\ IsDigit(h[2]))
  \/ (Len(h) = 2 /\ h[1] = Digit(2) /\ h[2] >= Digit(0) /\ h[2] <= Digit(3))

SixtyPart(m) ==
  Len(m) = 2 /\ m[1] >= Digit(0) /\ m[1] <= Digit(5) /\ IsDigit(m[2])

TimePattern(s) ==
  \E i \in 1..Len(s) :
    /\ s[i] = Colon[1]
    /\ HourPart(SubSeq(s, 1, i - 1))
    /\ LET rest == SubSeq(s, i + 1, Len(s)) IN
         \/ SixtyPart(rest)
         \/ /\ Len(rest) = 5
            /\ SixtyPart(SubSeq(rest, 1, 2))
            /\ rest[3] = Colon[1]
            /\ SixtyPart(SubSeq(rest, 4, 5))

\* registerValidation: body(field).optional().matches(pattern)
registerTimeValid(v) ==
  IF v = Undefined THEN TRUE
  ELSE IF v = Null THEN FALSE
  ELSE TimePattern(v)

\* updateUserValidation: body(field).optional({ nullable: true }).custom(...)
updateTimeValid(v) ==
  IF v = Undefined \/ v = Null THEN TRUE
  ELSE IF v = EmptyString THEN TRUE
  ELSE TimePattern(v)

(***************************************************************************)
(* checkLoginTime                                                          *)
(***************************************************************************)

Allowed == [allowed |-> TRUE, start |-> Null, end |-> Null, currentTime |-> Null]

Denied(loginStartTime, loginEndTime, currentTime) ==
  [allowed |-> FALSE, start |-> loginStartTime, end |-> loginEndTime,
   currentTime |-> currentTime]

\* the end bound compared with < where the code has <=
checkLoginTime_exclusiveEnd(loginStartTime, loginEndTime, now) ==
  IF Falsy(loginStartTime) \/ Falsy(loginEndTime) THEN Allowed
  ELSE LET currentTime == ToTimeString(now)
           start == loginStartTime
           end == loginEndTime
       IN IF StrGT(start, end)
          THEN IF StrGE(currentTime, start) \/ StrLT(currentTime, end)
               THEN Allowed
               ELSE Denied(loginStartTime, loginEndTime, currentTime)
          ELSE IF StrGE(currentTime, start) /\ StrLT(currentTime, end)
               THEN Allowed
               ELSE Denied(loginStartTime, loginEndTime, currentTime)

\* unrestricted only when both bounds are absent, where the code has "either"
checkLoginTime_bothAbsent(loginStartTime, loginEndTime, now) ==
  IF Falsy(loginStartTime) /\ Falsy(loginEndTime) THEN Allowed
  ELSE IF Falsy(loginStartTime) \/ Falsy(loginEndTime)
       THEN Denied(loginStartTime, loginEndTime, ToTimeString(now))
  ELSE LET currentTime == ToTimeString(now)
           start == loginStartTime
           end == loginEndTime
       IN IF StrGT(start, end)
          THEN IF StrGE(currentTime, start) \/ StrLE(currentTime, end)
               THEN Allowed
               ELSE Denied(loginStartTime, loginEndTime, currentTime)
          ELSE IF StrGE(currentTime, start) /\ StrLE(currentTime, end)
               THEN Allowed
               ELSE Denied(loginStartTime, loginEndTime, currentTime)

checkLoginTime(loginStartTime, loginEndTime, now) ==
  IF Falsy(loginStartTime) \/ Falsy(loginEndTime) THEN Allowed
  ELSE LET currentTime == ToTimeString(now)
           start == loginStartTime
           end == loginEndTime
       IN IF StrGT(start, end)
          THEN IF StrGE(currentTime, start) \/ StrLE(currentTime, end)
               THEN Allowed
               ELSE Denied(loginStartTime, loginEndTime, currentTime)
          ELSE IF StrGE(currentTime, start) /\ StrLE(currentTime, end)
               THEN Allowed
               ELSE Denied(loginStartTime, loginEndTime, currentTime)

(***************************************************************************)
(* Bounds of the model                                                     *)
(***************************************************************************)

\* identities ever created (ids are never reused)
MaxUsers == 2

\* login sessions ever created
MaxSessions == 2

\* last tick of the wall clock
MaxClock == 3

\* the instants of a day the wall clock visits, in order
DayTimes == << <<9, 15, 0>>, <<9, 30, 0>>, <<18, 1, 0>> >>

TicksPerDay == Len(DayTimes)

\* the time of day at a tick of the clock
TimeOfDay(c) == DayTimes[(c % TicksPerDay) + 1]

\* process.env.JWT_EXPIRES_IN || "24h"
JwtExpiresIn == TicksPerDay

HHMMSS(h, m, s) == Pad2(h) \o Colon \o Pad2(m) \o Colon \o Pad2(s)

HHMM(h, m) == Pad2(h) \o Colon \o Pad2(m)

AdminEmail == "admin@fbs.com"

Emails == {AdminEmail, "emp@fbs.com"}

Passwords == {"admin123", "test123"}

\* the password every registration of the model asks for
RegisterPasswords == {"test123"}

Roles == {"admin", "employee"}

(***************************************************************************)
(* Tokens and the Authorization header                                     *)
(***************************************************************************)

\* one space-separated part of a header: a plain word or a JSON web token
Word(s) ==
  [tag |-> "word", text |-> s, userId |-> 0, email |-> "", role |-> "",
   exp |-> 0, key |-> ""]

UndefinedPart ==
  [tag |-> "undefined", text |-> "", userId |-> 0, email |-> "", role |-> "",
   exp |-> 0, key |-> ""]

Jwt(userId, email, role, exp, key) ==
  [tag |-> "jwt", text |-> "", userId |-> userId, email |-> email,
   role |-> role, exp |-> exp, key |-> key]

JwtSecret == "JWT_SECRET"

\* jwt.sign({ userId, email, role }, process.env.JWT_SECRET, { expiresIn })
jwtSign(user, now) ==
  Jwt(user.id, user.email, user.role, now + JwtExpiresIn, JwtSecret)

\* jwt.verify(token, process.env.JWT_SECRET): the error it throws, or "ok"
jwtVerify(token, now) ==
  IF token.tag # "jwt" THEN "JsonWebTokenError"
  ELSE IF token.key # JwtSecret THEN "JsonWebTokenError"
  ELSE IF now >= token.exp THEN "TokenExpiredError"
  ELSE "ok"

\* a header is the sequence of its space-separated parts; no header is <<>>
NoHeader == <<>>

\* authHeader.split(" ")[1]
SplitSecond(header) == IF Len(header) >= 2 THEN header[2] ELSE UndefinedPart

\* !token
FalsyPart(part) == part = UndefinedPart \/ part = Word("")

\* authHeader.startsWith("Bearer ")
StartsWithBearer(header) == Len(header) >= 2 /\ header[1] = Word("Bearer")

(***************************************************************************)
(* Responses                                                               *)
(***************************************************************************)

Json(status, message) ==
  [status |-> status, message |-> message, code |-> "",
   currentTime |-> Null, allowedStartTime |-> Null, allowedEndTime |-> Null,
   between |-> <<>>, token |-> {}, data |-> {}]

NoResponse == Json(0, "")

\* what a middleware leaves behind: next() with req.user, or a response
CallNext(reqUser) == [next |-> TRUE, user |-> {reqUser}, res |-> NoResponse]

Reject(res) == [next |-> FALSE, user |-> {}, res |-> res]

(***************************************************************************)
(* User model                                                              *)
(***************************************************************************)

\* bcrypt.hash(password, saltRounds)
Hash(password) == <<"bcrypt", password>>

\* bcrypt.compare(plainPassword, hashedPassword)
verifyPassword(plainPassword, hashedPassword) ==
  hashedPassword = Hash(plainPassword)

\* prisma.user.findUnique({ where: { email } }): the ids found
findByEmail(email) == {i \in DOMAIN users : users[i].email = email}

emailExists(email) == findByEmail(email) # {}

\* no select: the whole row, the password hash with it
SelectUser_everyColumn(u) == u

\* the select of authenticateToken: every column but the password
SelectUser(u) ==
  [id |-> u.id, email |-> u.email, role |-> u.role,
   loginStartTime |-> u.loginStartTime, loginEndTime |-> u.loginEndTime,
   isActive |-> u.isActive]

\* User.create: the row inserted
NewUser(id, email, password, role, loginStartTime, loginEndTime) ==
  [id |-> id, email |-> email, password |-> Hash(password), role |-> role,
   loginStartTime |-> OrNull(loginStartTime),
   loginEndTime |-> OrNull(loginEndTime), isActive |-> TRUE]

(***************************************************************************)
(* LoginSession model                                                      *)
(***************************************************************************)

NoTime == 0 - 1

\* LoginSession.create: the row inserted
NewSession(id, userId, now) ==
  [id |-> id, userId |-> userId, loginTime |-> now, logoutTime |-> NoTime,
   isValid |-> TRUE]

\* the rows of login_sessions that go with a deleted user
CascadeDelete(userId) ==
  [i \in {j \in DOMAIN sessions : sessions[j].userId # userId} |-> sessions[i]]

\* a new session supersedes the open sessions the identity has
create_supersede(table, id, userId, now) ==
  [i \in DOMAIN table |->
     IF table[i].userId = userId /\ table[i].logoutTime = NoTime
     THEN [table[i] EXCEPT !.logoutTime = now, !.isValid = FALSE]
     ELSE table[i]] @@ (id :> NewSession(id, userId, now))

\* LoginSession.create on a table: the table with the new row
create(table, id, userId, now) == table @@ (id :> NewSession(id, userId, now))

\* the open rows ordered by loginTime ascending: the oldest comes first
findFirstOpen_oldest(table, userId) ==
  LET open == {i \in DOMAIN table :
                 table[i].userId = userId /\ table[i].logoutTime = NoTime}
  IN {i \in open : \A j \in open : table[j].loginTime >= table[i].loginTime}

\* the most recent row of the identity, open or not
findFirstOpen_anySession(table, userId) ==
  LET any == {i \in DOMAIN table : table[i].userId = userId}
  IN {i \in any : \A j \in any : table[j].loginTime <= table[i].loginTime}

\* findFirst({ where: { userId, logoutTime: null }, orderBy: { loginTime: "desc" } }):
\* the ids that may come first (rows of equal loginTime come in any order)
findFirstOpen(table, userId) ==
  LET open == {i \in DOMAIN table :
                 table[i].userId = userId /\ table[i].logoutTime = NoTime}
  IN {i \in open : \A j \in open : table[j].loginTime <= table[i].loginTime}

\* the update writes logoutTime and leaves isValid as it is
updateEnded_logoutTimeOnly(table, id, now) ==
  [table EXCEPT ![id] = [@ EXCEPT !.logoutTime = now]]

\* update({ where: { id }, data: { logoutTime: new Date(), isValid: false } })
updateEnded(table, id, now) ==
  [table EXCEPT ![id] = [@ EXCEPT !.logoutTime = now, !.isValid = FALSE]]

\* LoginSession.endSession: every outcome it may have, the table it leaves and
\* the row it returns ({} for null)
endSession(table, userId, now) ==
  LET first == findFirstOpen(table, userId) IN
  IF first = {}
  THEN {[table |-> table, row |-> {}]}
  ELSE {[table |-> updateEnded(table, id, now),
         row |-> {updateEnded(table, id, now)[id]}] : id \in first}

\* every session of the identity is rewritten, the invalid ones too
invalidateAllSessions_alsoInvalid(table, userId, now) ==
  LET hit == {i \in DOMAIN table : table[i].userId = userId}
  IN [table |-> [i \in DOMAIN table |->
                   IF i \in hit
                   THEN [table[i] EXCEPT !.isValid = FALSE, !.logoutTime = now]
                   ELSE table[i]],
      count |-> Cardinality(hit)]

\* the sessions are marked invalid and no logoutTime is written
invalidateAllSessions_keepLogoutTime(table, userId, now) ==
  LET hit == {i \in DOMAIN table : table[i].userId = userId /\ table[i].isValid}
  IN [table |-> [i \in DOMAIN table |->
                   IF i \in hit
                   THEN [table[i] EXCEPT !.isValid = FALSE]
                   ELSE table[i]],
      count |-> Cardinality(hit)]

\* LoginSession.invalidateAllSessions: the table it leaves and result.count
invalidateAllSessions(table, userId, now) ==
  LET hit == {i \in DOMAIN table : table[i].userId = userId /\ table[i].isValid}
  IN [table |-> [i \in DOMAIN table |->
                   IF i \in hit
                   THEN [table[i] EXCEPT !.isValid = FALSE, !.logoutTime = now]
                   ELSE table[i]],
      count |-> Cardinality(hit)]

\* LoginSession.getActiveSessions(userId): the ids of the rows found
getActiveSessions(table, userId) ==
  {i \in DOMAIN table :
     table[i].userId = userId /\ table[i].isValid /\ table[i].logoutTime = NoTime}

\* thirtyDaysAgo.setDate(thirtyDaysAgo.getDate() - 30)
ThirtyDays == 30

\* sevenDaysAgo.setDate(sevenDaysAgo.getDate() - 7)
SevenDays == 7

\* the greatest of a non-empty set of times
Latest(times) == CHOOSE t \in times : \A other \in times : other <= t

\* only the sessions still valid are counted
getStats_validOnly(table, userId, now) ==
  LET mine == {i \in DOMAIN table : table[i].userId = userId /\ table[i].isValid}
      since(days) == {i \in mine : table[i].loginTime >= now - days * TicksPerDay}
  IN [total_logins |-> Cardinality(mine),
      logins_last_30_days |-> Cardinality(since(ThirtyDays)),
      logins_last_7_days |-> Cardinality(since(SevenDays)),
      last_login |-> IF mine = {} THEN {}
                     ELSE {Latest({table[i].loginTime : i \in mine})}]

\* LoginSession.getStats: last_login is {} for null
getStats(table, userId, now) ==
  LET mine == {i \in DOMAIN table : table[i].userId = userId}
      since(days) == {i \in mine : table[i].loginTime >= now - days * TicksPerDay}
  IN [total_logins |-> Cardinality(mine),
      logins_last_30_days |-> Cardinality(since(ThirtyDays)),
      logins_last_7_days |-> Cardinality(since(SevenDays)),
      last_login |-> IF mine = {} THEN {}
                     ELSE {Latest({table[i].loginTime : i \in mine})}]

(***************************************************************************)
(* Order model: each operation is one transaction, so it gives the table   *)
(* it leaves and whether it committed                                      *)
(***************************************************************************)

\* assignedToId: null
Unassigned == 0

StatusLog(status, note) == [status |-> status, note |-> note]

Committed(table) == [ok |-> TRUE, table |-> table]

RolledBack(table) == [ok |-> FALSE, table |-> table]

\* Order.create({ ..., createdById, assignedTo })
Order_create(table, id, createdById, assignedTo) ==
  IF createdById \notin DOMAIN users
       \/ (assignedTo # Unassigned /\ assignedTo \notin DOMAIN users)
  THEN RolledBack(table)
  ELSE Committed(table @@ (id :>
         [id |-> id, status |-> "Pending", createdById |-> createdById,
          assignedToId |-> assignedTo,
          statusLogs |-> <<StatusLog("Pending", "Order created")>>,
          rto |-> {}]))

\* Order.assign(orderId, assignedToId)
Order_assign(table, orderId, assignedToId) ==
  IF orderId \notin DOMAIN table \/ assignedToId \notin DOMAIN users
  THEN RolledBack(table)
  ELSE Committed([table EXCEPT
         ![orderId].assignedToId = assignedToId,
         ![orderId].statusLogs =
            Append(@, StatusLog("Pending", "Order assigned to employee"))])

\* Order.updateStatus(orderId, status, note)
Order_updateStatus(table, orderId, status, note) ==
  IF orderId \notin DOMAIN table
  THEN RolledBack(table)
  ELSE Committed([table EXCEPT
         ![orderId].status = status,
         ![orderId].statusLogs = Append(@, StatusLog(status, note))])

\* Order.markDelivered(orderId)
Order_markDelivered(table, orderId) ==
  Order_updateStatus(table, orderId, "delivered", "Order delivered")

\* Order.initiateRTO(orderId, reason): one RTO row for an order
Order_initiateRTO(table, orderId, reason) ==
  IF orderId \notin DOMAIN table
  THEN RolledBack(table)
  ELSE IF table[orderId].rto # {}
  THEN RolledBack(table)
  ELSE Committed([table EXCEPT
         ![orderId].status = "rto_initiated",
         ![orderId].rto = {[reason |-> reason, received |-> FALSE]},
         ![orderId].statusLogs = Append(@, StatusLog("rto_initiated", reason))])

\* Order.markRTOReceived(orderId)
Order_markRTOReceived(table, orderId) ==
  IF orderId \notin DOMAIN table
  THEN RolledBack(table)
  ELSE IF table[orderId].rto = {}
  THEN RolledBack(table)
  ELSE Committed([table EXCEPT
         ![orderId].status = "rto_received",
         ![orderId].rto = {[r EXCEPT !.received = TRUE] : r \in @},
         ![orderId].statusLogs = Append(@, StatusLog("rto_received", "RTO received"))])

\* Order.findById(id): the rows found
Order_findById(table, id) == {table[i] : i \in DOMAIN table \cap {id}}

\* Order.findAll({ assignedToId }): if (assignedToId) where.assignedToId = ...
Order_findAll(table, assignedToId) ==
  {table[i] : i \in {j \in DOMAIN table :
                       assignedToId # Unassigned =>
                         table[j].assignedToId = assignedToId}}

(***************************************************************************)
(* Guards                                                                  *)
(***************************************************************************)

OutsideAllowedTime(user, timeCheck) ==
  [Json(403, "Session expired: Login allowed only between")
     EXCEPT !.between = <<timeCheck.start, timeCheck.end>>,
            !.currentTime = timeCheck.currentTime,
            !.allowedStartTime = user.loginStartTime,
            !.allowedEndTime = user.loginEndTime,
            !.code = "OUTSIDE_ALLOWED_TIME"]

\* the window decision taken at login is kept: no check per request
accountGate_windowFromLogin(user, now) ==
  IF ~user.isActive
  THEN Reject(Json(403, "Account has been deactivated"))
  ELSE CallNext(user)

\* the time window is checked before the active flag
accountGate_windowFirst(user, now) ==
  LET timeCheck == checkLoginTime(user.loginStartTime, user.loginEndTime,
                                  TimeOfDay(now))
  IN IF user.role = "employee" /\ ~timeCheck.allowed
     THEN Reject(OutsideAllowedTime(user, timeCheck))
     ELSE IF ~user.isActive
     THEN Reject(Json(403, "Account has been deactivated"))
     ELSE CallNext(user)

\* the time window is checked whatever the role
accountGate_windowForAll(user, now) ==
  IF ~user.isActive
  THEN Reject(Json(403, "Account has been deactivated"))
  ELSE LET timeCheck == checkLoginTime(user.loginStartTime,
                                       user.loginEndTime, TimeOfDay(now))
       IN IF ~timeCheck.allowed
          THEN Reject(OutsideAllowedTime(user, timeCheck))
          ELSE CallNext(user)

\* an identity with no open login session is turned away
accountGate_needsOpenSession(user, now) ==
  IF ~user.isActive
  THEN Reject(Json(403, "Account has been deactivated"))
  ELSE IF \A id \in DOMAIN sessions :
            sessions[id].userId = user.id => ~sessions[id].isValid
       THEN Reject(Json(401, "Session expired"))
       ELSE CallNext(user)

\* authenticateToken from the loaded identity on: active check, then the
\* time window for employees
accountGate(user, now) ==
  IF ~user.isActive
  THEN Reject(Json(403, "Account has been deactivated"))
  ELSE IF user.role = "employee"
       THEN LET timeCheck == checkLoginTime(user.loginStartTime,
                                            user.loginEndTime, TimeOfDay(now))
            IN IF ~timeCheck.allowed
               THEN Reject(OutsideAllowedTime(user, timeCheck))
               ELSE CallNext(user)
       ELSE CallNext(user)

\* the expiry of the token is not looked at
authenticateToken_expiredAdmitted(header, now) ==
  LET token == SplitSecond(header) IN
  IF header = NoHeader \/ FalsyPart(token)
  THEN Reject(Json(401, "Access token required"))
  ELSE LET verdict == jwtVerify(token, now) IN
       IF verdict = "JsonWebTokenError"
       THEN Reject(Json(401, "Invalid token"))
       ELSE IF token.userId \notin DOMAIN users
       THEN Reject(Json(401, "User not found"))
       ELSE accountGate(SelectUser(users[token.userId]), now)

\* an unknown subject answered as Forbidden
authenticateToken_unknownSubjectForbidden(header, now) ==
  LET token == SplitSecond(header) IN
  IF header = NoHeader \/ FalsyPart(token)
  THEN Reject(Json(401, "Access token required"))
  ELSE LET verdict == jwtVerify(token, now) IN
       IF verdict = "TokenExpiredError"
       THEN Reject(Json(401, "Token has expired"))
       ELSE IF verdict = "JsonWebTokenError"
       THEN Reject(Json(401, "Invalid token"))
       ELSE IF token.userId \notin DOMAIN users
       THEN Reject(Json(403, "User not found"))
       ELSE accountGate(SelectUser(users[token.userId]), now)

authenticateToken(header, now) ==
  LET token == SplitSecond(header) IN
  IF header = NoHeader \/ FalsyPart(token)
  THEN Reject(Json(401, "Access token required"))
  ELSE LET verdict == jwtVerify(token, now) IN
       IF verdict = "TokenExpiredError"
       THEN Reject(Json(401, "Token has expired"))
       ELSE IF verdict = "JsonWebTokenError"
       THEN Reject(Json(401, "Invalid token"))
       ELSE IF token.userId \notin DOMAIN users
       THEN Reject(Json(401, "User not found"))
       ELSE accountGate(SelectUser(users[token.userId]), now)

\* the role is not looked at
isAdmin_anyRole(reqUser) == CallNext(reqUser)

isAdmin(reqUser) ==
  IF reqUser.role # "admin"
  THEN Reject(Json(403, "Admin access required"))
  ELSE CallNext(reqUser)

protect(header, now) ==
  IF header = NoHeader \/ ~StartsWithBearer(header)
  THEN Reject(Json(401, "Unauthorized"))
  ELSE LET token == SplitSecond(header) IN
       IF jwtVerify(token, now) # "ok"
       THEN Reject(Json(401, "Invalid token"))
       ELSE CallNext([id |-> token.userId, role |-> token.role])

\* router.use(authenticateToken, isAdmin)
adminOnly(header, now) ==
  LET g == authenticateToken(header, now) IN
  IF ~g.next THEN g ELSE isAdmin(CHOOSE u \in g.user : TRUE)

(***************************************************************************)
(* The request just answered                                               *)
(***************************************************************************)

\* the stored identity a correctly signed token in the header names, as it
\* is when the request arrives
SubjectOf(header) ==
  LET token == SplitSecond(header) IN
  IF token.tag = "jwt" /\ token.key = JwtSecret /\ token.userId \in DOMAIN users
  THEN {users[token.userId]}
  ELSE {}

Exchange(route, guard, header, subject, g, res) ==
  [route |-> route, guard |-> guard, header |-> header, at |-> clock,
   subject |-> subject, next |-> g.next, reqUser |-> g.user, res |-> res]

NoExchange ==
  [route |-> "none", guard |-> "none", header |-> NoHeader, at |-> 0,
   subject |-> {}, next |-> FALSE, reqUser |-> {}, res |-> NoResponse]

(***************************************************************************)
(* Requests the model sends                                                *)
(***************************************************************************)

\* a token signed with another key, claiming the seeded admin
ForgedToken == Jwt(1, AdminEmail, "admin", MaxClock + JwtExpiresIn + 1, "other")

Headers ==
  {NoHeader, <<Word("Bearer"), Word("garbage")>>, <<Word("Bearer"), ForgedToken>>}
    \cup {<<Word("Bearer"), t>> : t \in issued}
    \cup {<<Word("Basic"), t>> : t \in issued}

LoginEmails == Emails \cup {"nobody@fbs.com"}

StartInputs == {Undefined, Null, EmptyString, HHMMSS(9, 0, 0)}

EndInputs == {Undefined, Null, EmptyString, HHMMSS(18, 0, 0)}

RoleInputs == {"undefined"} \cup Roles

\* updateUser bodies: isActive is {} when absent, else {value}
UpdateBody(role, loginStartTime, loginEndTime, isActive) ==
  [role |-> role, loginStartTime |-> loginStartTime,
   loginEndTime |-> loginEndTime, isActive |-> isActive]

UpdateBodies ==
  {UpdateBody(r, Undefined, Undefined, {}) : r \in Roles}
    \cup {UpdateBody("undefined", Undefined, Undefined, {a}) : a \in BOOLEAN}
    \cup {UpdateBody("undefined", st, en, {}) : st \in StartInputs, en \in EndInputs}

(***************************************************************************)
(* Initial state: the seeded admin, no session, no token                   *)
(***************************************************************************)

NotEvaluated == [start |-> Null, end |-> Null, now |-> <<0, 0, 0>>, done |-> FALSE,
                 result |-> Allowed]

\* no LoginSession call made on its own yet
NoCall == [op |-> "none", userId |-> 0, row |-> {}, count |-> 0]

\* the logout requests that may be in flight at once
Requests == {1, 2}

\* a logout request before its endSession: nothing found yet
Idle == [pc |-> "idle", userId |-> 0, found |-> {}]

NoLogouts == [r \in Requests |-> Idle]

InitStore ==
  /\ users = (1 :> NewUser(1, AdminEmail, "admin123", "admin", Undefined, Undefined))
  /\ nextUserId = 2
  /\ sessions = <<>>
  /\ nextSessionId = 1
  /\ clock = 0
  /\ issued = {}
  /\ last = NoExchange
  /\ ret = NoCall
  /\ logouts = NoLogouts
  /\ orders = <<>>

Init == InitStore /\ tw = NotEvaluated

(***************************************************************************)
(* Actions                                                                 *)
(***************************************************************************)

\* the wall clock moves on to its next instant
Tick ==
  /\ last = NoExchange
  /\ clock < MaxClock
  /\ clock' = clock + 1
  /\ UNCHANGED <<users, nextUserId, sessions, nextSessionId, issued, last, tw, ret,
                 logouts, orders>>

\* the response is sent: res.json(...)
Respond ==
  /\ last # NoExchange
  /\ last' = NoExchange
  /\ UNCHANGED <<users, nextUserId, sessions, nextSessionId, clock, issued, tw, ret,
                 logouts, orders>>

\* POST /auth/login: the response, and the user logged in if any
login(email, password) ==
  LET found == findByEmail(email) IN
  IF found = {}
  THEN [ok |-> FALSE, res |-> Json(401, "Invalid email or password")]
  ELSE LET user == users[CHOOSE i \in found : TRUE] IN
       IF ~user.isActive
       THEN [ok |-> FALSE,
             res |-> Json(403, "Account has been deactivated. Please contact admin.")]
       ELSE IF ~verifyPassword(password, user.password)
       THEN [ok |-> FALSE, res |-> Json(401, "Invalid email or password")]
       ELSE LET timeCheck == checkLoginTime(user.loginStartTime,
                                            user.loginEndTime, TimeOfDay(clock))
            IN IF user.role = "employee" /\ ~timeCheck.allowed
               THEN [ok |-> FALSE,
                     res |-> [Json(403, "Login allowed only between")
                                EXCEPT !.between = <<timeCheck.start, timeCheck.end>>,
                                       !.currentTime = timeCheck.currentTime,
                                       !.allowedStartTime = user.loginStartTime,
                                       !.allowedEndTime = user.loginEndTime]]
               ELSE [ok |-> TRUE,
                     res |-> [Json(200, "Login successful")
                                EXCEPT !.token = {jwtSign(user, clock)}]]

\* the session is recorded as soon as the password verifies, before the
\* time window is looked at
Login_sessionBeforeWindow(email, password) ==
  /\ last = NoExchange
  /\ nextSessionId <= MaxSessions
  /\ LET r == login(email, password)
         found == findByEmail(email)
         subject == {users[i] : i \in found}
     IN /\ issued' = issued \cup r.res.token
        /\ IF r.ok \/ r.res.message = "Login allowed only between"
           THEN /\ sessions' = sessions @@ (nextSessionId :>
                      NewSession(nextSessionId, CHOOSE i \in found : TRUE, clock))
                /\ nextSessionId' = nextSessionId + 1
           ELSE UNCHANGED <<sessions, nextSessionId>>
        /\ last' = Exchange("login", "none", NoHeader, subject,
                            [next |-> TRUE, user |-> {}], r.res)
  /\ UNCHANGED <<users, nextUserId, clock, tw, ret, logouts, orders>>

Login(email, password) ==
  /\ last = NoExchange
  /\ nextSessionId <= MaxSessions
  /\ LET r == login(email, password)
         found == findByEmail(email)
         subject == {users[i] : i \in found}
     IN /\ issued' = issued \cup r.res.token
        /\ IF r.ok
           THEN /\ sessions' = sessions @@ (nextSessionId :>
                      NewSession(nextSessionId, CHOOSE i \in found : TRUE, clock))
                /\ nextSessionId' = nextSessionId + 1
           ELSE UNCHANGED <<sessions, nextSessionId>>
        /\ last' = Exchange("login", "none", NoHeader, subject,
                            [next |-> TRUE, user |-> {}], r.res)
  /\ UNCHANGED <<users, nextUserId, clock, tw, ret, logouts, orders>>

\* GET /auth/profile
GetProfile(header) ==
  /\ last = NoExchange
  /\ LET g == authenticateToken(header, clock) IN
       /\ last' = Exchange("getProfile", "authenticateToken", header,
                           SubjectOf(header), g,
                           IF g.next THEN Json(200, "profile") ELSE g.res)
  /\ UNCHANGED <<users, nextUserId, sessions, nextSessionId, clock, issued, tw, ret,
                 logouts, orders>>

\* GET /orders behind router.use(protect)
GetOrders(header) ==
  /\ last = NoExchange
  /\ LET g == protect(header, clock) IN
       last' = Exchange("getOrders", "protect", header, SubjectOf(header), g,
                        IF ~g.next THEN g.res
                        ELSE LET reqUser == CHOOSE u \in g.user : TRUE IN
                             [Json(200, "orders") EXCEPT
                                !.data = Order_findAll(orders,
                                           IF reqUser.role = "employee"
                                           THEN reqUser.id ELSE Unassigned)])
  /\ UNCHANGED <<users, nextUserId, sessions, nextSessionId, clock, issued, tw, ret,
                 logouts, orders>>

\* the admin-only routes share authenticateToken, isAdmin: what a request
\* that they turn away leaves behind
TurnedAway(route, header, g) ==
  /\ last' = Exchange(route, "adminOnly", header, SubjectOf(header), g, g.res)
  /\ UNCHANGED <<users, nextUserId, sessions>>

\* User.update(id, updates): the row after the update
update(row, body) ==
  [row EXCEPT
     !.role = IF body.role # "undefined" THEN body.role ELSE @,
     !.loginStartTime = IF body.loginStartTime # Undefined
                        THEN OrNull(body.loginStartTime) ELSE @,
     !.loginEndTime = IF body.loginEndTime # Undefined
                      THEN OrNull(body.loginEndTime) ELSE @,
     !.isActive = IF body.isActive # {} THEN CHOOSE a \in body.isActive : TRUE ELSE @]

\* Object.keys(updates).length === 0
NoUpdates(body) ==
  /\ body.role = "undefined"
  /\ body.loginStartTime = Undefined
  /\ body.loginEndTime = Undefined
  /\ body.isActive = {}

\* POST /auth/register: authenticateToken, isAdmin, registerValidation, register
RegisterWith(header, starts, ends) ==
  /\ last = NoExchange
  /\ nextUserId <= MaxUsers
  /\ LET g == adminOnly(header, clock)
         subject == SubjectOf(header)
     IN IF ~g.next
        THEN TurnedAway("register", header, g)
        ELSE \E email \in Emails, password \in RegisterPasswords, role \in RoleInputs,
                loginStartTime \in starts, loginEndTime \in ends :
               IF ~(registerTimeValid(loginStartTime) /\ registerTimeValid(loginEndTime))
               THEN /\ last' = Exchange("register", "adminOnly", header, subject, g,
                                        Json(400, "Validation failed"))
                    /\ UNCHANGED <<users, nextUserId, sessions>>
               ELSE IF emailExists(email)
               THEN /\ last' = Exchange("register", "adminOnly", header, subject, g,
                                        Json(409, "User with this email already exists"))
                    /\ UNCHANGED <<users, nextUserId, sessions>>
               ELSE /\ users' = users @@ (nextUserId :>
                          NewUser(nextUserId, email, password,
                                  IF role = "undefined" THEN "employee" ELSE role,
                                  loginStartTime, loginEndTime))
                    /\ nextUserId' = nextUserId + 1
                    /\ last' = Exchange("register", "adminOnly", header, subject, g,
                                        Json(201, "User registered successfully"))
                    /\ UNCHANGED sessions
  /\ UNCHANGED <<nextSessionId, clock, issued, tw, ret, logouts, orders>>

Register(header) == RegisterWith(header, StartInputs, EndInputs)

\* PUT /users/:id: authenticateToken, isAdmin, updateUserValidation, updateUser
UpdateUserWith(header, bodies) ==
  /\ last = NoExchange
  /\ LET g == adminOnly(header, clock)
         subject == SubjectOf(header)
     IN IF ~g.next
        THEN TurnedAway("updateUser", header, g)
        ELSE \E id \in 1..MaxUsers, body \in bodies :
               IF ~(updateTimeValid(body.loginStartTime) /\ updateTimeValid(body.loginEndTime))
               THEN /\ last' = Exchange("updateUser", "adminOnly", header, subject, g,
                                        Json(400, "Validation failed"))
                    /\ UNCHANGED <<users, nextUserId, sessions>>
               ELSE IF id \notin DOMAIN users
               THEN /\ last' = Exchange("updateUser", "adminOnly", header, subject, g,
                                        Json(404, "User not found"))
                    /\ UNCHANGED <<users, nextUserId, sessions>>
               ELSE IF NoUpdates(body)
               THEN /\ last' = Exchange("updateUser", "adminOnly", header, subject, g,
                                        Json(400, "No fields to update"))
                    /\ UNCHANGED <<users, nextUserId, sessions>>
               ELSE /\ users' = [users EXCEPT ![id] = update(@, body)]
                    /\ last' = Exchange("updateUser", "adminOnly", header, subject, g,
                                        Json(200, "User updated successfully"))
                    /\ UNCHANGED <<nextUserId, sessions>>
  /\ UNCHANGED <<nextSessionId, clock, issued, tw, ret, logouts, orders>>

UpdateUser(header) == UpdateUserWith(header, UpdateBodies)

\* DELETE /users/:id: authenticateToken, isAdmin, deleteUser
DeleteUser(header) ==
  /\ last = NoExchange
  /\ LET g == adminOnly(header, clock)
         subject == SubjectOf(header)
     IN IF ~g.next
        THEN TurnedAway("deleteUser", header, g)
        ELSE \E id \in 1..MaxUsers :
               IF id = (CHOOSE u \in g.user : TRUE).id
               THEN /\ last' = Exchange("deleteUser", "adminOnly", header, subject, g,
                                        Json(400, "Cannot delete your own account"))
                    /\ UNCHANGED <<users, nextUserId, sessions>>
               ELSE IF id \notin DOMAIN users
               THEN /\ last' = Exchange("deleteUser", "adminOnly", header, subject, g,
                                        Json(404, "User not found"))
                    /\ UNCHANGED <<users, nextUserId, sessions>>
               ELSE /\ users' = [i \in DOMAIN users \ {id} |-> users[i]]
                    /\ sessions' = CascadeDelete(id)
                    /\ last' = Exchange("deleteUser", "adminOnly", header, subject, g,
                                        Json(200, "User deleted successfully"))
                    /\ UNCHANGED nextUserId
  /\ UNCHANGED <<nextSessionId, clock, issued, tw, ret, logouts, orders>>

Next ==
  \/ Tick
  \/ Respond
  \/ \E email \in LoginEmails, password \in Passwords : Login(email, password)
  \/ \E header \in Headers : GetProfile(header)
  \/ \E header \in Headers : GetOrders(header)
  \/ \E header \in Headers : Register(header)
  \/ \E header \in Headers : UpdateUser(header)
  \/ \E header \in Headers : DeleteUser(header)

Spec == Init /\ [][Next]_vars

(***************************************************************************)
(* checkLoginTime on its own: bounds and an instant are drawn, then the    *)
(* function is applied                                                     *)
(***************************************************************************)

Hours == {0, 9, 18, 23}

Minutes == {0, 59}

Seconds == {0, 1, 59}

Instants == {<<h, m, s>> : h \in Hours, m \in Minutes, s \in Seconds}

\* what a bound may hold: absent, or a time of day written HH:MM:SS or HH:MM
BoundValues ==
  {Null, Undefined, EmptyString}
    \cup {HHMMSS(t[1], t[2], t[3]) : t \in Instants}
    \cup {HHMM(h, m) : h \in Hours, m \in Minutes}

InitTime ==
  /\ InitStore
  /\ tw \in {[start |-> st, end |-> en, now |-> n, done |-> FALSE, result |-> Allowed] :
               st \in BoundValues, en \in BoundValues, n \in Instants}

Evaluate ==
  /\ ~tw.done
  /\ tw' = [tw EXCEPT !.done = TRUE,
                      !.result = checkLoginTime(tw.start, tw.end, tw.now)]
  /\ UNCHANGED <<users, nextUserId, sessions, nextSessionId, clock, issued, last, ret,
               logouts, orders>>

NextTime == Evaluate

SpecTime == InitTime /\ [][NextTime]_vars

(***************************************************************************)
(* The session tracker on its own: create, endSession and                  *)
(* invalidateAllSessions of LoginSession, called one after the other       *)
(***************************************************************************)

\* the store once the admin has registered an employee
InitAccounts ==
  /\ users = (1 :> NewUser(1, AdminEmail, "admin123", "admin", Undefined, Undefined))
               @@ (2 :> NewUser(2, "emp@fbs.com", "test123", "employee",
                                Undefined, Undefined))
  /\ nextUserId = 3
  /\ sessions = <<>>
  /\ nextSessionId = 1
  /\ clock = 0
  /\ issued = {}
  /\ last = NoExchange
  /\ tw = NotEvaluated
  /\ ret = NoCall
  /\ logouts = NoLogouts
  /\ orders = <<>>

\* login sessions the calls of the tracker on its own ever create
MaxRows == 3

\* the userId a call is made with: that of an identity, or one of none
CallUserIds == DOMAIN users \cup {nextUserId}

Returned(op, userId, row, count) ==
  [op |-> op, userId |-> userId, row |-> row, count |-> count]

\* LoginSession.create({ userId })
Create(userId) ==
  /\ ret = NoCall
  /\ userId \in DOMAIN users
  /\ nextSessionId <= MaxRows
  /\ sessions' = create(sessions, nextSessionId, userId, clock)
  /\ nextSessionId' = nextSessionId + 1
  /\ ret' = Returned("create", userId, {sessions'[nextSessionId]}, 0)
  /\ UNCHANGED <<users, nextUserId, clock, issued, last, tw, logouts, orders>>

\* LoginSession.endSession(userId)
EndSession(userId) ==
  /\ ret = NoCall
  /\ \E outcome \in endSession(sessions, userId, clock) :
       /\ sessions' = outcome.table
       /\ ret' = Returned("endSession", userId, outcome.row, 0)
  /\ UNCHANGED <<users, nextUserId, nextSessionId, clock, issued, last, tw,
                 logouts, orders>>

\* LoginSession.invalidateAllSessions(userId)
InvalidateAllSessions(userId) ==
  /\ ret = NoCall
  /\ LET result == invalidateAllSessions(sessions, userId, clock) IN
       /\ sessions' = result.table
       /\ ret' = Returned("invalidateAllSessions", userId, {}, result.count)
  /\ UNCHANGED <<users, nextUserId, nextSessionId, clock, issued, last, tw,
                 logouts, orders>>

\* the caller has taken what the call returned
Return ==
  /\ ret # NoCall
  /\ ret' = NoCall
  /\ UNCHANGED <<users, nextUserId, sessions, nextSessionId, clock, issued, last, tw,
                 logouts, orders>>

NextSessions ==
  \/ (ret = NoCall /\ Tick)
  \/ Return
  \/ \E userId \in CallUserIds : Create(userId)
  \/ \E userId \in CallUserIds : EndSession(userId)
  \/ \E userId \in CallUserIds : InvalidateAllSessions(userId)

SpecSessions == InitAccounts /\ [][NextSessions]_vars

(***************************************************************************)
(* Two logout requests at once: each endSession awaits findFirst, then     *)
(* awaits update, and the other request may run in between                 *)
(***************************************************************************)

AllIdle == \A r \in Requests : logouts[r].pc = "idle"

\* endSession up to the first await: findFirst has answered
LogoutFind(r, userId) ==
  /\ ret = NoCall
  /\ logouts[r].pc = "idle"
  /\ LET first == findFirstOpen(sessions, userId) IN
       \E found \in (IF first = {} THEN {{}} ELSE {{id} : id \in first}) :
         logouts' = [logouts EXCEPT ![r] =
                       [pc |-> "found", userId |-> userId, found |-> found]]
  /\ UNCHANGED <<users, nextUserId, sessions, nextSessionId, clock, issued, last, tw,
                 ret, orders>>

\* endSession from there on: null if nothing was found, else the update
LogoutUpdate(r) ==
  /\ logouts[r].pc = "found"
  /\ logouts' = [logouts EXCEPT ![r].pc = "done"]
  /\ IF logouts[r].found = {}
     THEN UNCHANGED sessions
     ELSE sessions' = updateEnded(sessions, CHOOSE id \in logouts[r].found : TRUE,
                                  clock)
  /\ UNCHANGED <<users, nextUserId, nextSessionId, clock, issued, last, tw, ret,
                 orders>>

\* the sessions are there before the logouts start
NextLogout ==
  \/ (ret = NoCall /\ Tick)
  \/ Return
  \/ \E userId \in CallUserIds : AllIdle /\ Create(userId)
  \/ \E r \in Requests, userId \in CallUserIds : LogoutFind(r, userId)
  \/ \E r \in Requests : LogoutUpdate(r)

SpecLogout == InitAccounts /\ [][NextLogout]_vars

(***************************************************************************)
(* The routes that start and end sessions, and the password reset          *)
(***************************************************************************)

\* req.body.newPassword: absent ("" stands for undefined), too short, long enough
NewPasswords == {"", "abc", "admin123", "test123"}

\* POST /auth/logout: authenticateToken, logout
Logout(header) ==
  /\ last = NoExchange
  /\ LET g == authenticateToken(header, clock) IN
       IF ~g.next
       THEN /\ last' = Exchange("logout", "authenticateToken", header,
                                SubjectOf(header), g, g.res)
            /\ UNCHANGED sessions
       ELSE \E outcome \in endSession(sessions, (CHOOSE u \in g.user : TRUE).id, clock) :
              /\ sessions' = outcome.table
              /\ last' = Exchange("logout", "authenticateToken", header,
                                  SubjectOf(header), g,
                                  Json(200, "Logged out successfully"))
  /\ UNCHANGED <<users, nextUserId, nextSessionId, clock, issued, tw, ret, logouts, orders>>

\* POST /users/:id/reset-password: authenticateToken, isAdmin, resetUserPassword
ResetUserPassword(header, id, newPassword) ==
  /\ last = NoExchange
  /\ LET g == adminOnly(header, clock)
         subject == SubjectOf(header)
     IN IF ~g.next
        THEN TurnedAway("resetUserPassword", header, g)
        ELSE IF newPassword = "" \/ Len(newPassword) < 6
        THEN /\ last' = Exchange("resetUserPassword", "adminOnly", header, subject, g,
                                 Json(400, "New password must be at least 6 characters long"))
             /\ UNCHANGED <<users, nextUserId, sessions>>
        ELSE IF id \notin DOMAIN users
        THEN /\ last' = Exchange("resetUserPassword", "adminOnly", header, subject, g,
                                 Json(404, "User not found"))
             /\ UNCHANGED <<users, nextUserId, sessions>>
        ELSE /\ users' = [users EXCEPT ![id].password = Hash(newPassword)]
             /\ last' = Exchange("resetUserPassword", "adminOnly", header, subject, g,
                                 Json(200, "Password reset successfully"))
             /\ UNCHANGED <<nextUserId, sessions>>
  /\ UNCHANGED <<nextSessionId, clock, issued, tw, ret, logouts, orders>>

\* req.body.currentPassword / newPassword of a change: absent, empty, or
\* a password
ChangePasswords == {"undefined", ""} \cup Passwords

\* loginValidation: body('password').notEmpty()
loginValidation(email, password) == password # "undefined" /\ password # ""

\* POST /auth/login: loginValidation, login
loginRoute(email, password) ==
  IF ~loginValidation(email, password)
  THEN [ok |-> FALSE, res |-> Json(400, "Validation failed")]
  ELSE login(email, password)

\* POST /auth/change-password: authenticateToken, changePassword
ChangePassword(header, currentPassword, newPassword) ==
  /\ last = NoExchange
  /\ LET g == authenticateToken(header, clock)
         subject == SubjectOf(header)
     IN IF ~g.next
        THEN /\ last' = Exchange("changePassword", "authenticateToken", header,
                                 subject, g, g.res)
             /\ UNCHANGED users
        ELSE LET reqUser == CHOOSE u \in g.user : TRUE
                 user == users[CHOOSE i \in findByEmail(reqUser.email) : TRUE]
             IN IF currentPassword = "undefined"
                THEN /\ last' = Exchange("changePassword", "authenticateToken", header,
                                         subject, g, Json(500, "Internal server error"))
                     /\ UNCHANGED users
                ELSE IF ~verifyPassword(currentPassword, user.password)
                THEN /\ last' = Exchange("changePassword", "authenticateToken", header,
                                         subject, g,
                                         Json(400, "Current password is incorrect"))
                     /\ UNCHANGED users
                ELSE IF newPassword = "undefined"
                THEN /\ last' = Exchange("changePassword", "authenticateToken", header,
                                         subject, g, Json(500, "Internal server error"))
                     /\ UNCHANGED users
                ELSE /\ users' = [users EXCEPT ![reqUser.id].password = Hash(newPassword)]
                     /\ last' = Exchange("changePassword", "authenticateToken", header,
                                         subject, g,
                                         Json(200, "Password changed successfully"))
  /\ UNCHANGED <<nextUserId, sessions, nextSessionId, clock, issued, tw, ret,
                 logouts, orders>>

NextRoutes ==
  \/ Tick
  \/ Respond
  \/ \E email \in LoginEmails, password \in Passwords : Login(email, password)
  \/ \E header \in Headers : Logout(header)
  \/ \E header \in Headers, id \in CallUserIds, newPassword \in NewPasswords :
       ResetUserPassword(header, id, newPassword)
  \/ \E header \in Headers, currentPassword, newPassword \in ChangePasswords :
       ChangePassword(header, currentPassword, newPassword)

SpecRoutes == InitAccounts /\ [][NextRoutes]_vars

(***************************************************************************)
(* The guard beside the session tracker: requests through authenticateToken *)
(* while sessions are created by login, ended by logout and invalidated    *)
(***************************************************************************)

NextGuard ==
  \/ (ret = NoCall /\ Tick)
  \/ Respond
  \/ Return
  \/ \E email \in Emails, password \in Passwords : ret = NoCall /\ Login(email, password)
  \/ \E header \in Headers : ret = NoCall /\ Logout(header)
  \/ \E header \in Headers : ret = NoCall /\ GetProfile(header)
  \/ \E userId \in DOMAIN users : last = NoExchange /\ InvalidateAllSessions(userId)

SpecGuard == InitAccounts /\ [][NextGuard]_vars

(***************************************************************************)
(* The validators before the identity store: register and updateUser with  *)
(* times of day written in several ways                                    *)
(***************************************************************************)

\* a time of day written without padding the hour: "9:00", "9:00:00"
Unpadded(h, rest) == <<Digit(h)>> \o SubSeq(rest, 3, Len(rest))

\* req.body.loginStartTime: absent, null, "09:00", "9:00", "24:00"
StartTimes ==
  {Undefined, Null, HHMM(9, 0), Unpadded(9, HHMM(9, 0)), HHMM(24, 0)}

\* req.body.loginEndTime: absent, "", "18:00:00", "9:30:00", "18:60"
EndTimes ==
  {Undefined, EmptyString, HHMMSS(18, 0, 0), Unpadded(9, HHMMSS(9, 30, 0)),
   HHMM(18, 60)}

TimeBodies ==
  {UpdateBody("undefined", st, en, {}) : st \in StartTimes, en \in EndTimes}

\* POST /auth/register with those times
RegisterTimes(header) == RegisterWith(header, StartTimes, EndTimes)

\* PUT /users/:id with those times
UpdateUserTimes(header) == UpdateUserWith(header, TimeBodies)

NextValidate ==
  \/ Tick
  \/ Respond
  \/ \E email \in Emails, password \in Passwords : Login(email, password)
  \/ \E header \in Headers : RegisterTimes(header)
  \/ \E header \in Headers : UpdateUserTimes(header)

SpecValidate == Init /\ [][NextValidate]_vars

(***************************************************************************)
(* The order routes behind router.use(protect)                             *)
(***************************************************************************)

\* orders ever created
MaxOrders == 2

\* status-log entries an order ever has
MaxLogs == 3

\* req.body.status of PATCH /:id/status
StatusInputs == {"shipped"}

\* req.params.id
OrderIds == 1..MaxOrders

nextOrderId == Cardinality(DOMAIN orders) + 1

\* an order whose log may still grow, or no order
Loggable(table, id) == id \in DOMAIN table => Len(table[id].statusLogs) < MaxLogs

\* the answer of a handler from what the model's transaction did:
\* catch (error) { next(error) } ends in the global error handler
Answered(result, status, message) ==
  IF result.ok THEN Json(status, message) ELSE Json(500, "Internal server error")

\* POST /orders: createOrder
CreateOrder(header, assignedTo) ==
  /\ last = NoExchange
  /\ nextOrderId <= MaxOrders
  /\ LET g == protect(header, clock) IN
       IF ~g.next
       THEN /\ last' = Exchange("createOrder", "protect", header, SubjectOf(header),
                                g, g.res)
            /\ UNCHANGED orders
       ELSE LET result == Order_create(orders, nextOrderId,
                                       (CHOOSE u \in g.user : TRUE).id, assignedTo)
            IN /\ orders' = result.table
               /\ last' = Exchange("createOrder", "protect", header, SubjectOf(header),
                                   g, Answered(result, 201, "Order created successfully"))
  /\ UNCHANGED <<users, nextUserId, sessions, nextSessionId, clock, issued, tw, ret,
                 logouts>>

\* GET /orders/:id: getOrderById
GetOrderById(header, id) ==
  /\ last = NoExchange
  /\ LET g == protect(header, clock) IN
       last' = Exchange("getOrderById", "protect", header, SubjectOf(header), g,
                 IF ~g.next THEN g.res
                 ELSE LET reqUser == CHOOSE u \in g.user : TRUE
                          order == Order_findById(orders, id)
                      IN IF order = {}
                         THEN Json(404, "Order not found")
                         ELSE IF reqUser.role = "employee"
                                   /\ \E o \in order : o.assignedToId # reqUser.id
                         THEN Json(403, "Access denied")
                         ELSE [Json(200, "") EXCEPT !.data = order])
  /\ UNCHANGED <<users, nextUserId, sessions, nextSessionId, clock, issued, tw, ret,
                 logouts, orders>>

\* a handler that awaits one operation of the model and answers
OrderRoute(route, header, result, message) ==
  /\ last = NoExchange
  /\ LET g == protect(header, clock) IN
       IF ~g.next
       THEN /\ last' = Exchange(route, "protect", header, SubjectOf(header), g, g.res)
            /\ UNCHANGED orders
       ELSE /\ orders' = result.table
            /\ last' = Exchange(route, "protect", header, SubjectOf(header), g,
                                Answered(result, 200, message))
  /\ UNCHANGED <<users, nextUserId, sessions, nextSessionId, clock, issued, tw, ret,
                 logouts>>

\* PATCH /orders/:id/status: updateOrderStatus
UpdateOrderStatus(header, id, status) ==
  /\ Loggable(orders, id)
  /\ OrderRoute("updateOrderStatus", header,
                Order_updateStatus(orders, id, status, Null), "Order status updated")

\* PATCH /orders/:id/deliver: markDelivered
MarkDelivered(header, id) ==
  /\ Loggable(orders, id)
  /\ OrderRoute("markDelivered", header,
                Order_markDelivered(orders, id), "Order marked as delivered")

\* POST /orders/:id/rto: initiateRTO
InitiateRTO(header, id) ==
  /\ Loggable(orders, id)
  /\ OrderRoute("initiateRTO", header,
                Order_initiateRTO(orders, id, "refused"), "RTO initiated")

NextOrders ==
  \/ Respond
  \/ \E email \in Emails, password \in Passwords : Login(email, password)
  \/ \E header \in Headers, assignedTo \in {Unassigned} \cup DOMAIN users :
       CreateOrder(header, assignedTo)
  \/ \E header \in Headers : GetOrders(header)
  \/ \E header \in Headers, id \in OrderIds : GetOrderById(header, id)
  \/ \E header \in Headers, id \in OrderIds, status \in StatusInputs :
       UpdateOrderStatus(header, id, status)
  \/ \E header \in Headers, id \in OrderIds : MarkDelivered(header, id)
  \/ \E header \in Headers, id \in OrderIds : InitiateRTO(header, id)

SpecOrders == InitAccounts /\ [][NextOrders]_vars

(***************************************************************************)
(* The order model on its own: its operations called one after the other   *)
(***************************************************************************)

\* one call of the model: the table it leaves
OrderCall(result) ==
  /\ orders' = result.table
  /\ UNCHANGED <<users, nextUserId, sessions, nextSessionId, clock, issued, last, tw,
                 ret, logouts>>

OrderCreate(createdById, assignedTo) ==
  /\ nextOrderId <= MaxOrders
  /\ OrderCall(Order_create(orders, nextOrderId, createdById, assignedTo))

OrderAssign(orderId, assignedToId) ==
  /\ Loggable(orders, orderId)
  /\ OrderCall(Order_assign(orders, orderId, assignedToId))

OrderUpdateStatus(orderId, status) ==
  /\ Loggable(orders, orderId)
  /\ OrderCall(Order_updateStatus(orders, orderId, status, Null))

OrderMarkDelivered(orderId) ==
  /\ Loggable(orders, orderId)
  /\ OrderCall(Order_markDelivered(orders, orderId))

OrderInitiateRTO(orderId) ==
  /\ Loggable(orders, orderId)
  /\ OrderCall(Order_initiateRTO(orders, orderId, "refused"))

OrderMarkRTOReceived(orderId) ==
  /\ Loggable(orders, orderId)
  /\ OrderCall(Order_markRTOReceived(orders, orderId))

NextOrderModel ==
  \/ \E createdById \in DOMAIN users, assignedTo \in {Unassigned} \cup CallUserIds :
       OrderCreate(createdById, assignedTo)
  \/ \E orderId \in OrderIds, assignedToId \in CallUserIds :
       OrderAssign(orderId, assignedToId)
  \/ \E orderId \in OrderIds, status \in StatusInputs :
       OrderUpdateStatus(orderId, status)
  \/ \E orderId \in OrderIds : OrderMarkDelivered(orderId)
  \/ \E orderId \in OrderIds : OrderInitiateRTO(orderId)
  \/ \E orderId \in OrderIds : OrderMarkRTOReceived(orderId)

SpecOrderModel == InitAccounts /\ [][NextOrderModel]_vars

(***************************************************************************)
(* Login statistics: getStats on tables whose sessions began today, a week *)
(* ago and a month ago, while sessions are ended and invalidated           *)
(***************************************************************************)

\* the instant the statistics are asked for
StatsNow == (ThirtyDays + 1) * TicksPerDay

\* when the sessions began: now, 7 days ago and 30 days ago to the tick,
\* and one tick before each of the two
StatLoginTimes ==
  {StatsNow,
   StatsNow - SevenDays * TicksPerDay, StatsNow - SevenDays * TicksPerDay - 1,
   StatsNow - ThirtyDays * TicksPerDay, StatsNow - ThirtyDays * TicksPerDay - 1}

\* the tables of n sessions, all still open
StatTables(n) ==
  {[i \in 1..n |-> NewSession(i, by[i], at[i])] :
     by \in [1..n -> {1, 2}], at \in [1..n -> StatLoginTimes]}

InitStats ==
  /\ users = (1 :> NewUser(1, AdminEmail, "admin123", "admin", Undefined, Undefined))
               @@ (2 :> NewUser(2, "emp@fbs.com", "test123", "employee",
                                Undefined, Undefined))
  /\ nextUserId = 3
  /\ \E n \in 0..MaxSessions :
       /\ sessions \in StatTables(n)
       /\ nextSessionId = n + 1
  /\ clock = StatsNow
  /\ issued = {}
  /\ last = NoExchange
  /\ tw = NotEvaluated
  /\ ret = NoCall
  /\ logouts = NoLogouts
  /\ orders = <<>>

\* LoginSession.getStats(userId)
GetStats(userId) ==
  /\ ret = NoCall
  /\ ret' = Returned("getStats", userId, {getStats(sessions, userId, clock)}, 0)
  /\ UNCHANGED <<users, nextUserId, sessions, nextSessionId, clock, issued, last, tw,
                 logouts, orders>>

NextStats ==
  \/ Return
  \/ \E userId \in CallUserIds : GetStats(userId)
  \/ \E userId \in CallUserIds : EndSession(userId)
  \/ \E userId \in CallUserIds : InvalidateAllSessions(userId)

SpecStats == InitStats /\ [][NextStats]_vars

(***************************************************************************)
(* Properties of checkLoginTime (SpecTime)                                 *)
(***************************************************************************)

SecondsOf(t) == t[1] * 3600 + t[2] * 60 + t[3]

NumberAt(s, i) == (s[i] - Digit(0)) * 10 + (s[i + 1] - Digit(0))

\* a zero-padded HH:MM:SS string
IsPaddedHMS(s) == Len(s) = 8 /\ TimePattern(s)

\* a zero-padded HH:MM string
IsPaddedHM(s) == Len(s) = 5 /\ TimePattern(s)

\* the same bound written HH:MM:SS
WithSeconds(s) == IF IsPaddedHM(s) THEN s \o Colon \o Pad2(0) ELSE s

\* the instant a zero-padded HH:MM:SS string denotes, in seconds since midnight
InstantOf(s) == SecondsOf(<<NumberAt(s, 1), NumberAt(s, 4), NumberAt(s, 7)>>)

\* C5: with both bounds zero-padded HH:MM:SS, checkLoginTime allows exactly
\* when start <= now <= end (start <= end) or now >= start or now <= end
\* (start > end), both ends inclusive; start = end allows the one instant.
C5_WindowArithmetic ==
  (tw.done /\ IsPaddedHMS(tw.start) /\ IsPaddedHMS(tw.end)) =>
    LET start == InstantOf(tw.start)
        end == InstantOf(tw.end)
        now == SecondsOf(tw.now)
    IN /\ tw.result.allowed <=>
            \/ (start <= end /\ start <= now /\ now <= end)
            \/ (start > end /\ (now >= start \/ now <= end))
       /\ (start = end) => (tw.result.allowed <=> now = start)

C5_Witness ==
  /\ tw.done
  /\ tw.start = HHMMSS(9, 0, 0)
  /\ tw.end = HHMMSS(9, 0, 0)
  /\ tw.now = <<9, 0, 0>>
  /\ tw.result.allowed

\* C6: when loginStartTime or loginEndTime is absent (null or empty),
\* checkLoginTime allows at every instant, whatever the other bound is.
C6_AbsentBoundUnrestricted ==
  (tw.done /\ (tw.start \in {Null, EmptyString} \/ tw.end \in {Null, EmptyString}))
    => tw.result.allowed

C6_Witness ==
  /\ tw.done
  /\ tw.start = HHMMSS(9, 0, 0)
  /\ tw.end = Null
  /\ tw.now = <<23, 59, 59>>
  /\ tw.result.allowed

\* C7: for bounds stored as HH:MM or HH:MM:SS, a request at the instant the
\* start bound denotes and one at the instant the end bound denotes are
\* allowed, and the decision is that for the same bounds written HH:MM:00.
C7_BoundaryInclusiveEveryFormat ==
  (/\ tw.done
   /\ (IsPaddedHM(tw.start) \/ IsPaddedHMS(tw.start))
   /\ (IsPaddedHM(tw.end) \/ IsPaddedHMS(tw.end))) =>
    LET start == WithSeconds(tw.start)
        end == WithSeconds(tw.end)
        now == SecondsOf(tw.now)
    IN /\ (now = InstantOf(start)) => tw.result.allowed
       /\ (now = InstantOf(end)) => tw.result.allowed
       /\ tw.result.allowed = checkLoginTime(start, end, tw.now).allowed

(***************************************************************************)
(* Properties of the guards and of the identity store (Spec)               *)
(***************************************************************************)

\* the request just answered went through authenticateToken
ViaAuthenticateToken == last.guard \in {"authenticateToken", "adminOnly"}

\* the token it carried, and what jwt.verify made of it on arrival
LastToken == SplitSecond(last.header)

LastVerdict == jwtVerify(LastToken, last.at)

LastSubject == CHOOSE u \in last.subject : TRUE

\* authenticateToken let the request through (isAdmin may still refuse it)
PassedAuthenticateToken ==
  last.next \/ last.res = Json(403, "Admin access required")

\* checkLoginTime on the stored bounds of an identity at a tick
WindowAt(u, tick) ==
  checkLoginTime(u.loginStartTime, u.loginEndTime, TimeOfDay(tick))

\* C1: for an active employee with a correctly signed, unexpired token,
\* each request through authenticateToken is decided by the stored window
\* and the clock of that very request: allowed passes, otherwise the answer
\* is 403 OUTSIDE_ALLOWED_TIME with the current time and the stored bounds.
C1_WindowRecheckedPerRequest ==
  (/\ ViaAuthenticateToken
   /\ StartsWithBearer(last.header)
   /\ LastVerdict = "ok"
   /\ last.subject # {}
   /\ LastSubject.isActive
   /\ LastSubject.role = "employee") =>
    LET u == LastSubject
        timeCheck == WindowAt(u, last.at)
    IN /\ timeCheck.allowed => PassedAuthenticateToken
       /\ ~timeCheck.allowed =>
            /\ ~last.next
            /\ last.res.status = 403
            /\ last.res.code = "OUTSIDE_ALLOWED_TIME"
            /\ last.res.currentTime = ToTimeString(TimeOfDay(last.at))
            /\ last.res.allowedStartTime = u.loginStartTime
            /\ last.res.allowedEndTime = u.loginEndTime

\* a token login issued to an employee inside the stored window, still
\* unexpired, is turned away now that the clock has left the window
C1_Witness ==
  /\ last.guard = "authenticateToken"
  /\ StartsWithBearer(last.header)
  /\ LastToken \in issued
  /\ LastToken.role = "employee"
  /\ LastVerdict = "ok"
  /\ last.subject # {}
  /\ WindowAt(LastSubject, LastToken.exp - JwtExpiresIn).allowed
  /\ last.at > LastToken.exp - JwtExpiresIn
  /\ last.res.code = "OUTSIDE_ALLOWED_TIME"

\* C2: a request reaches the handler of a guarded route (authenticateToken
\* or protect) only if the identity of its token is stored, active and, for
\* an employee, inside the stored window, and req.user carries the stored role.
C2_EveryGuardRechecksStoredState ==
  (last.guard # "none" /\ last.next) =>
    /\ last.subject # {}
    /\ LastSubject.isActive
    /\ (LastSubject.role = "employee" => WindowAt(LastSubject, last.at).allowed)
    /\ \A r \in last.reqUser : r.role = LastSubject.role

\* C3: while isActive is false, a request through authenticateToken with a
\* correctly signed, unexpired token of the identity is answered 403
\* "Account has been deactivated", also for an employee outside the window;
\* an active identity never gets that answer.
C3_DeactivatedRejected ==
  (/\ ViaAuthenticateToken
   /\ StartsWithBearer(last.header)
   /\ LastVerdict = "ok"
   /\ last.subject # {}) =>
    /\ ~LastSubject.isActive =>
         (~last.next /\ last.res = Json(403, "Account has been deactivated"))
    /\ LastSubject.isActive =>
         last.res.message # "Account has been deactivated"

\* a deactivated employee who is also outside the window, holding a token
\* issued before: the answer is the deactivated one
C3_Witness ==
  /\ last.guard = "authenticateToken"
  /\ StartsWithBearer(last.header)
  /\ LastToken \in issued
  /\ LastVerdict = "ok"
  /\ last.subject # {}
  /\ ~LastSubject.isActive
  /\ LastSubject.role = "employee"
  /\ ~WindowAt(LastSubject, last.at).allowed
  /\ last.res = Json(403, "Account has been deactivated")

\* C4: an identity whose stored role is admin is never answered with the
\* time-window rejection, at login or through authenticateToken.
C4_AdminNeverTimeGated ==
  (/\ last.route = "login" \/ ViaAuthenticateToken
   /\ last.subject # {}
   /\ LastSubject.role = "admin") =>
    /\ last.res.code # "OUTSIDE_ALLOWED_TIME"
    /\ last.res.message \notin {"Login allowed only between",
                                "Session expired: Login allowed only between"}
    /\ last.res.currentTime = Null

\* an admin whose stored bounds exclude the current instant gets through
C4_Witness ==
  /\ ViaAuthenticateToken
  /\ last.next
  /\ last.subject # {}
  /\ LastSubject.role = "admin"
  /\ ~WindowAt(LastSubject, last.at).allowed

\* C8: every stored identity has loginStartTime and loginEndTime either
\* both absent or both present.
C8_BoundsBothOrNeither ==
  \A i \in DOMAIN users :
    (users[i].loginStartTime = Null) <=> (users[i].loginEndTime = Null)

\* C9: on authenticateToken and on protect, a correctly signed token past
\* its expiry is answered "Token has expired" and a malformed or wrongly
\* signed one "Invalid token".
C9_ExpiredDistinctFromInvalid ==
  (last.guard # "none" /\ StartsWithBearer(last.header)) =>
    /\ (/\ LastToken.tag = "jwt"
        /\ LastToken.key = JwtSecret
        /\ last.at >= LastToken.exp) => last.res.message = "Token has expired"
    /\ (LastToken.tag # "jwt" \/ LastToken.key # JwtSecret) =>
         last.res.message = "Invalid token"

\* C10: a request through authenticateToken whose Authorization header is
\* absent or not of the Bearer scheme is answered 401 "Access token required".
C10_BearerSchemeRequired ==
  (ViaAuthenticateToken /\ ~StartsWithBearer(last.header)) =>
    last.res = Json(401, "Access token required")

\* C11: a request through authenticateToken with a correctly signed,
\* unexpired token whose subject id matches no stored identity is answered
\* 401 "User not found": never 403, never passed on to the handler.
C11_UnknownSubjectUnauthenticated ==
  (ViaAuthenticateToken /\ LastVerdict = "ok" /\ last.subject = {}) =>
    /\ ~last.next
    /\ last.res = Json(401, "User not found")

\* the token login issued to an identity deleted since
C11_Witness ==
  /\ last.guard = "authenticateToken"
  /\ StartsWithBearer(last.header)
  /\ LastToken \in issued
  /\ LastVerdict = "ok"
  /\ LastToken.userId \notin DOMAIN users
  /\ last.subject = {}
  /\ last.res.status = 401

\* credential verification fails: no identity has the email, or the
\* password is not the one stored for it
CredentialsFail(email, password) ==
  \A i \in findByEmail(email) : ~verifyPassword(password, users[i].password)

\* C12: every login that fails credential verification, whether the email
\* is that of no identity or that of an identity (active or deactivated)
\* given a wrong password, is answered 401 "Invalid email or password".
C12_LoginHidesRegistration ==
  [][\A email \in LoginEmails, password \in Passwords :
       (Login(email, password) /\ CredentialsFail(email, password)) =>
         last'.res = Json(401, "Invalid email or password")]_vars

\* the identity a login with these credentials is granted to, if any: it
\* exists, is active, the password verifies and, for an employee, the clock
\* is inside the stored window
Granted(email, password) ==
  {i \in findByEmail(email) :
     /\ users[i].isActive
     /\ verifyPassword(password, users[i].password)
     /\ (users[i].role = "employee" => WindowAt(users[i], clock).allowed)}

\* C13: a login that succeeds creates exactly one session record, of that
\* identity and open, and returns one token carrying the identity's id and
\* role; a login rejected at any step creates no session and returns no token.
C13_LoginCreatesOneSession ==
  [][\A email \in LoginEmails, password \in Passwords :
       Login(email, password) =>
         IF Granted(email, password) # {}
         THEN LET i == CHOOSE g \in Granted(email, password) : TRUE
                  new == DOMAIN sessions' \ DOMAIN sessions
              IN /\ Cardinality(new) = 1
                 /\ \A n \in new : sessions'[n] = NewSession(n, i, clock)
                 /\ \A j \in DOMAIN sessions : sessions'[j] = sessions[j]
                 /\ last'.res.status = 200
                 /\ Cardinality(last'.res.token) = 1
                 /\ \A t \in last'.res.token :
                      /\ t.userId = i
                      /\ t.role = users[i].role
                      /\ jwtVerify(t, clock) = "ok"
         ELSE /\ sessions' = sessions
              /\ last'.res.token = {}
              /\ last'.res.status # 200]_vars

\* an employee with a stored window has logged in inside it: the session
\* of that login is recorded and the token names the employee
C13_Witness ==
  /\ last.route = "login"
  /\ last.res.status = 200
  /\ last.subject # {}
  /\ LastSubject.role = "employee"
  /\ LastSubject.loginStartTime # Null
  /\ LastSubject.loginEndTime # Null
  /\ \E t \in last.res.token : t.userId = LastSubject.id
  /\ \E n \in DOMAIN sessions :
       sessions[n] = NewSession(n, LastSubject.id, last.at)

\* the answers authenticateToken and isAdmin turn a request away with
GuardRejections ==
  {<<401, "Access token required">>, <<401, "Invalid token">>,
   <<401, "Token has expired">>, <<401, "User not found">>,
   <<403, "Account has been deactivated">>,
   <<403, "Session expired: Login allowed only between">>,
   <<403, "Admin access required">>}

\* the first check the request just answered fails, taking the checks in
\* the order extract, validate token, load identity, active, time window,
\* role: the answer of that check, or none when it fails no check
FirstFailure ==
  IF last.header = NoHeader \/ Len(last.header) < 2
       \/ LastToken.tag = "undefined" \/ LastToken = Word("")
  THEN <<401, "Access token required">>
  ELSE IF LastToken.tag # "jwt" \/ LastToken.key # JwtSecret
  THEN <<401, "Invalid token">>
  ELSE IF last.at >= LastToken.exp
  THEN <<401, "Token has expired">>
  ELSE IF last.subject = {}
  THEN <<401, "User not found">>
  ELSE IF ~LastSubject.isActive
  THEN <<403, "Account has been deactivated">>
  ELSE IF LastSubject.role = "employee" /\ ~WindowAt(LastSubject, last.at).allowed
  THEN <<403, "Session expired: Login allowed only between">>
  ELSE IF last.guard = "adminOnly" /\ LastSubject.role # "admin"
  THEN <<403, "Admin access required">>
  ELSE <<0, "none">>

\* C26: a request through authenticateToken (and isAdmin) ends in one
\* outcome: the rejection of the first check it fails, in the order
\* extract, validate token, load identity, active, time window, role, with
\* the handler not run and no identity attached; or, failing none, the
\* handler run with the stored identity attached and no rejection of the
\* guard sent. The identity attached never has the password hash.
C26_OneOutcomeFirstFailure ==
  ViaAuthenticateToken =>
    /\ FirstFailure # <<0, "none">> =>
         /\ ~last.next
         /\ last.reqUser = {}
         /\ <<last.res.status, last.res.message>> = FirstFailure
    /\ FirstFailure = <<0, "none">> =>
         /\ last.next
         /\ Cardinality(last.reqUser) = 1
         /\ <<last.res.status, last.res.message>> \notin GuardRejections
    /\ \A reqUser \in last.reqUser :
         /\ "password" \notin DOMAIN reqUser
         /\ \A field \in DOMAIN reqUser : reqUser[field] = LastSubject[field]

\* an employee who is deactivated, outside the stored window and not an
\* admin asks for an admin-only route: the answer is that of the active check
C26_Witness ==
  /\ last.guard = "adminOnly"
  /\ LastToken \in issued
  /\ last.at < LastToken.exp
  /\ last.subject # {}
  /\ ~LastSubject.isActive
  /\ LastSubject.role = "employee"
  /\ ~WindowAt(LastSubject, last.at).allowed
  /\ ~last.next
  /\ last.res = Json(403, "Account has been deactivated")

\* the instant of the day at a tick lies between the stored bounds of an
\* identity, both included (after the start or before the end when the
\* window spans midnight); no window when a bound is absent
InsideStoredWindow(u, tick) ==
  \/ Falsy(u.loginStartTime)
  \/ Falsy(u.loginEndTime)
  \/ LET start == InstantOf(WithSeconds(u.loginStartTime))
         end == InstantOf(WithSeconds(u.loginEndTime))
         now == SecondsOf(TimeOfDay(tick))
     IN \/ (start <= end /\ start <= now /\ now <= end)
        \/ (start > end /\ (now >= start \/ now <= end))

AdmittedByAuthenticateToken ==
  /\ LastVerdict = "ok"
  /\ last.subject # {}
  /\ LastSubject.isActive
  /\ (LastSubject.role = "employee" => WindowAt(LastSubject, last.at).allowed)

\* C23: the handler of an admin-only route runs only for a request that
\* passed authenticateToken and whose stored role is admin; an employee with
\* a valid token inside the window is answered 403 "Admin access required",
\* and a request turned away leaves the store as it was.
C23_AdminOnlyRoutes ==
  [][(last.guard = "none" /\ last'.guard = "adminOnly") =>
       /\ (last.next => (AdmittedByAuthenticateToken /\ LastSubject.role = "admin"))'
       /\ ((AdmittedByAuthenticateToken /\ LastSubject.role = "employee") =>
             (~last.next /\ last.res = Json(403, "Admin access required")))'
       /\ ~last'.next =>
            (users' = users /\ nextUserId' = nextUserId /\ sessions' = sessions)]_vars

\* an employee inside the stored window, with the token of their login,
\* has asked for an admin-only route
C23_Witness ==
  /\ last.guard = "adminOnly"
  /\ StartsWithBearer(last.header)
  /\ LastToken \in issued
  /\ AdmittedByAuthenticateToken
  /\ LastSubject.role = "employee"
  /\ LastSubject.loginStartTime # Null
  /\ LastSubject.loginEndTime # Null
  /\ last.res = Json(403, "Admin access required")

(***************************************************************************)
(* Properties of the session tracker (SpecSessions)                        *)
(***************************************************************************)

\* the sessions of an identity with a null logoutTime
OpenOf(table, userId) ==
  {i \in DOMAIN table : table[i].userId = userId /\ table[i].logoutTime = NoTime}

\* the sessions of an identity that have been ended
EndedOf(table, userId) ==
  {i \in DOMAIN table :
     table[i].userId = userId /\ table[i].logoutTime # NoTime /\ ~table[i].isValid}

\* every row of the table but these is as it was
SameBut(ids) ==
  /\ DOMAIN sessions' = DOMAIN sessions
  /\ \A j \in DOMAIN sessions \ ids : sessions'[j] = sessions[j]

\* C14: when the one open session of an identity is the one create has
\* made, endSession leaves it with a logoutTime and isValid = false, and no
\* session of the identity open; an endSession for an identity without an
\* open session returns null and changes no record.
C14_CreateThenEndSession ==
  [][\A userId \in CallUserIds :
       EndSession(userId) =>
         /\ \A id \in DOMAIN sessions :
              (/\ OpenOf(sessions, userId) = {id}
               /\ sessions[id] = NewSession(id, userId, sessions[id].loginTime)) =>
                /\ sessions'[id].logoutTime = clock
                /\ sessions'[id].logoutTime # NoTime
                /\ sessions'[id].isValid = FALSE
                /\ EndedOf(sessions', userId) \ EndedOf(sessions, userId) = {id}
                /\ OpenOf(sessions', userId) = {}
                /\ ret'.row = {sessions'[id]}
                /\ SameBut({id})
         /\ OpenOf(sessions, userId) = {} =>
              /\ ret'.row = {}
              /\ sessions' = sessions]_vars

\* the second endSession in a row has returned null: the identity's one
\* session stays as the first one left it
C14_Witness ==
  /\ ret.op = "endSession"
  /\ ret.row = {}
  /\ \E id \in DOMAIN sessions :
       /\ sessions[id].userId = ret.userId
       /\ EndedOf(sessions, ret.userId) = {id}
       /\ {i \in DOMAIN sessions : sessions[i].userId = ret.userId} = {id}

\* C15: when an identity has several sessions with a null logoutTime,
\* endSession ends exactly one, of the greatest loginTime among them: it
\* gets logoutTime and isValid = false, every other row stays as it was.
C15_EndsMostRecentOnly ==
  [][\A userId \in CallUserIds :
       (EndSession(userId) /\ Cardinality(OpenOf(sessions, userId)) >= 2) =>
         \E id \in OpenOf(sessions, userId) :
           /\ \A j \in OpenOf(sessions, userId) :
                sessions[j].loginTime <= sessions[id].loginTime
           /\ sessions'[id] =
                [sessions[id] EXCEPT !.logoutTime = clock, !.isValid = FALSE]
           /\ SameBut({id})
           /\ ret'.row = {sessions'[id]}]_vars

\* endSession has ended the later of two open sessions of an identity;
\* the earlier one and a session of another identity are still open
C15_Witness ==
  /\ ret.op = "endSession"
  /\ \E row \in ret.row, j, k \in DOMAIN sessions :
       /\ sessions[row.id] = row
       /\ sessions[j].userId = ret.userId
       /\ sessions[j].logoutTime = NoTime
       /\ sessions[j].loginTime < row.loginTime
       /\ sessions[k].userId # ret.userId
       /\ sessions[k].logoutTime = NoTime

\* the sessions of an identity with isValid = true
ValidOf(table, userId) ==
  {i \in DOMAIN table : table[i].userId = userId /\ table[i].isValid}

\* C17: invalidateAllSessions sets isValid = false and logoutTime = now on
\* every session of the identity that was valid and on nothing else,
\* returns how many those were, and leaves the identity no valid session.
C17_InvalidateAllSessions ==
  [][\A userId \in CallUserIds :
       InvalidateAllSessions(userId) =>
         LET hit == ValidOf(sessions, userId) IN
         /\ \A i \in hit :
              sessions'[i] =
                [sessions[i] EXCEPT !.isValid = FALSE, !.logoutTime = clock]
         /\ SameBut(hit)
         /\ ret'.count = Cardinality(hit)
         /\ ValidOf(sessions', userId) = {}]_vars

\* two valid sessions of an identity have been invalidated at once; the
\* valid session of another identity is as it was
C17_Witness ==
  /\ ret.op = "invalidateAllSessions"
  /\ ret.count = 2
  /\ Cardinality(EndedOf(sessions, ret.userId)) = 2
  /\ \E k \in DOMAIN sessions :
       sessions[k].userId # ret.userId /\ sessions[k].isValid

\* C19: create adds one open session of the identity and leaves every
\* existing row as it was, the identity's earlier open sessions included.
C19_CreateTouchesNothingElse ==
  [][\A userId \in CallUserIds :
       Create(userId) =>
         LET new == DOMAIN sessions' \ DOMAIN sessions IN
         /\ Cardinality(new) = 1
         /\ \A n \in new :
              /\ sessions'[n] = NewSession(n, userId, clock)
              /\ ret'.row = {sessions'[n]}
         /\ \A j \in DOMAIN sessions : sessions'[j] = sessions[j]
         /\ OpenOf(sessions', userId) = OpenOf(sessions, userId) \cup new]_vars

\* create has given an identity its third open session at once
C19_Witness ==
  /\ ret.op = "create"
  /\ \E row \in ret.row : sessions[row.id] = row
  /\ Cardinality(OpenOf(sessions, ret.userId)) = 3
  /\ Cardinality(ValidOf(sessions, ret.userId)) = 3

\* C20: with create, endSession and invalidateAllSessions called one after
\* the other, no step removes a session or changes its loginTime, and a
\* logoutTime that is set is never changed or reset to null.
C20_LoginTimeFixedLogoutTimeOnce ==
  [][\A i \in DOMAIN sessions :
       /\ i \in DOMAIN sessions'
       /\ sessions'[i].loginTime = sessions[i].loginTime
       /\ sessions[i].logoutTime # NoTime =>
            sessions'[i].logoutTime = sessions[i].logoutTime]_vars

\* a session ended at an earlier tick keeps its logoutTime through a later
\* endSession and a later invalidateAllSessions of the same identity
C20_Witness ==
  /\ ret.op \in {"endSession", "invalidateAllSessions"}
  /\ \E i, j \in DOMAIN sessions :
       /\ sessions[i].userId = ret.userId
       /\ sessions[i].logoutTime # NoTime
       /\ sessions[i].logoutTime < clock
       /\ sessions[i].loginTime < sessions[i].logoutTime
       /\ sessions[j].userId = ret.userId
       /\ sessions[j].logoutTime = clock

\* C29: after any history of create, endSession and invalidateAllSessions
\* every session has isValid = true exactly when its logoutTime is null, so
\* what getActiveSessions finds for an identity are the sessions endSession
\* selects from, and the one endSession would end is among them.
C29_ValidIffNotLoggedOut ==
  /\ \A id \in DOMAIN sessions :
       sessions[id].isValid <=> (sessions[id].logoutTime = NoTime)
  /\ \A userId \in CallUserIds :
       /\ getActiveSessions(sessions, userId) = OpenOf(sessions, userId)
       /\ findFirstOpen(sessions, userId) \subseteq getActiveSessions(sessions, userId)

\* an identity with two sessions ended at different instants and a session
\* created since, which is the active one
C29_Witness ==
  /\ ret.op = "create"
  /\ \E userId \in DOMAIN users :
       /\ getActiveSessions(sessions, userId) # {}
       /\ \E i, j \in EndedOf(sessions, userId) :
            sessions[i].logoutTime < sessions[j].logoutTime

(***************************************************************************)
(* Properties of concurrent logouts (SpecLogout)                           *)
(***************************************************************************)

\* both logouts have returned and were for the same identity
BothDone(userId) ==
  \A r \in Requests : logouts[r].pc = "done" /\ logouts[r].userId = userId

\* C16: with two endSession calls of one identity interleaved, no update
\* writes the logoutTime of a session that has one already, and once both
\* have returned min(k, 2) sessions of the identity are ended, k being how
\* many were open when the two started.
C16_ConcurrentLogoutsEndDistinctSessions ==
  [][/\ \A r \in Requests :
          LogoutUpdate(r) =>
            \A id \in logouts[r].found : sessions[id].logoutTime = NoTime
     /\ \A userId \in CallUserIds :
          BothDone(userId)' =>
            Cardinality(EndedOf(sessions', userId)) =
              Min(Cardinality({i \in DOMAIN sessions' :
                                 sessions'[i].userId = userId}), 2)]_vars

(***************************************************************************)
(* Properties of the password reset (SpecRoutes)                           *)
(***************************************************************************)

\* C18: once resetUserPassword has succeeded for an identity, no session
\* of that identity has isValid = true.
C18_PasswordResetEndsSessions ==
  [][\A header \in Headers, id \in CallUserIds, newPassword \in NewPasswords :
       (/\ ResetUserPassword(header, id, newPassword)
        /\ last'.res = Json(200, "Password reset successfully")) =>
         ValidOf(sessions', id) = {}]_vars

(***************************************************************************)
(* Properties of the login statistics (SpecStats)                          *)
(***************************************************************************)

\* the sessions of an identity, and those among them no older than days
SessionsOf(table, userId) == {i \in DOMAIN table : table[i].userId = userId}

NoOlderThan(table, userId, days) ==
  {i \in SessionsOf(table, userId) :
     clock - table[i].loginTime <= days * TicksPerDay}

\* C21: getStats returns the number of the identity's sessions, the numbers
\* of those that began at most 7 and at most 30 days ago, and the greatest
\* loginTime (null iff there is no session); so last 7 <= last 30 <= total,
\* and endSession and invalidateAllSessions change none of the four.
C21_StatsCountSessions ==
  [][/\ \A userId \in CallUserIds :
          GetStats(userId) =>
            \E stats \in ret'.row :
              /\ ret'.row = {stats}
              /\ stats.total_logins = Cardinality(SessionsOf(sessions, userId))
              /\ stats.logins_last_7_days =
                   Cardinality(NoOlderThan(sessions, userId, SevenDays))
              /\ stats.logins_last_30_days =
                   Cardinality(NoOlderThan(sessions, userId, ThirtyDays))
              /\ (stats.last_login = {}) <=> (SessionsOf(sessions, userId) = {})
              /\ \A t \in stats.last_login :
                   /\ \E i \in SessionsOf(sessions, userId) : sessions[i].loginTime = t
                   /\ \A i \in SessionsOf(sessions, userId) : sessions[i].loginTime <= t
              /\ stats.logins_last_7_days <= stats.logins_last_30_days
              /\ stats.logins_last_30_days <= stats.total_logins
     /\ \A userId \in CallUserIds :
          (EndSession(userId) \/ InvalidateAllSessions(userId)) =>
            \A other \in CallUserIds :
              getStats(sessions', other, clock') = getStats(sessions, other, clock)]_vars

\* the statistics of an identity whose one session began 30 days ago to
\* the tick and has been ended, and whose other began a tick earlier
C21_Witness ==
  /\ ret.op = "getStats"
  /\ \E stats \in ret.row :
       /\ stats.total_logins = 2
       /\ stats.logins_last_30_days = 1
       /\ stats.logins_last_7_days = 0
       /\ stats.last_login = {StatsNow - ThirtyDays * TicksPerDay}
  /\ \E i \in DOMAIN sessions :
       /\ sessions[i].userId = ret.userId
       /\ sessions[i].loginTime = StatsNow - ThirtyDays * TicksPerDay
       /\ ~sessions[i].isValid

\* C22: changePassword replaces the stored credential only when the
\* current password verifies: otherwise it answers an error and the store
\* is unchanged; on success only the password of the identity changes, a
\* login with the new password then succeeds and one with the old
\* (different) password fails.
C22_ChangePasswordNeedsCurrent ==
  [][\A header \in Headers, currentPassword, newPassword \in ChangePasswords :
       (ChangePassword(header, currentPassword, newPassword) /\ last'.next) =>
         LET me == CHOOSE u \in SubjectOf(header) : TRUE IN
         IF ~verifyPassword(currentPassword, me.password)
         THEN /\ last'.res.status >= 400
              /\ users' = users
         ELSE IF last'.res.status # 200
         THEN users' = users
         ELSE /\ users' = [users EXCEPT ![me.id].password = users'[me.id].password]
              /\ (loginRoute(me.email, newPassword).ok)'
              /\ newPassword # currentPassword =>
                   ~(loginRoute(me.email, currentPassword).ok)']_vars

(***************************************************************************)
(* Properties of the guard beside the session tracker (SpecGuard)          *)
(***************************************************************************)

\* C24: the decision of authenticateToken depends on the token, the identity
\* store and the clock alone: a step that leaves the identities and the
\* clock as they are (a login creating a session, a logout ending one, an
\* invalidation) leaves the decision for every header as it was; and a
\* request the guard answers or passes to a handler that only reads changes
\* no identity and no session.
C24_GuardApartFromSessions ==
  [][/\ (users' = users /\ clock' = clock) =>
          \A header \in Headers' :
            authenticateToken(header, clock)' = authenticateToken(header, clock)
     /\ (last.guard = "none" /\ last'.guard = "authenticateToken"
           /\ (~last'.next \/ last'.route = "getProfile")) =>
          (users' = users /\ nextUserId' = nextUserId /\ sessions' = sessions
             /\ nextSessionId' = nextSessionId)]_vars

\* a request passed authenticateToken with the token of a login whose
\* sessions have all been ended since
C24_Witness ==
  /\ last.route = "getProfile"
  /\ last.next
  /\ LastToken \in issued
  /\ \E id \in DOMAIN sessions : sessions[id].userId = LastSubject.id
  /\ \A id \in DOMAIN sessions :
       sessions[id].userId = LastSubject.id =>
         (~sessions[id].isValid /\ sessions[id].logoutTime # NoTime)

(***************************************************************************)
(* Properties of the validators (SpecValidate)                             *)
(***************************************************************************)

\* a stored bound that is absent, or zero-padded HH:MM or HH:MM:SS
AbsentOrZeroPadded(v) ==
  v \in {Null, EmptyString} \/ IsPaddedHM(v) \/ IsPaddedHMS(v)

\* C27: every loginStartTime and loginEndTime that registerValidation or
\* updateUserValidation let through and that is stored is absent or a
\* zero-padded HH:MM or HH:MM:SS string; "9:00" is never stored.
C27_StoredTimesZeroPadded ==
  \A i \in DOMAIN users :
    /\ AbsentOrZeroPadded(users[i].loginStartTime)
    /\ AbsentOrZeroPadded(users[i].loginEndTime)

(***************************************************************************)
(* Properties of the order routes (SpecOrders)                             *)
(***************************************************************************)

\* C28: an employee reads and changes only the orders assigned to them:
\* what getOrders and getOrderById answer to an employee are orders whose
\* assignedToId is the employee's id, and a request of an employee changes
\* the status of an order only if the order is assigned to that employee.
C28_EmployeeOwnOrdersOnly ==
  [][(/\ last.guard = "none"
      /\ last'.guard = "protect"
      /\ last'.next
      /\ \E reqUser \in last'.reqUser : reqUser.role = "employee") =>
       LET me == (CHOOSE reqUser \in last'.reqUser : TRUE).id IN
         /\ \A order \in last'.res.data : order.assignedToId = me
         /\ \A id \in DOMAIN orders :
              orders'[id].status # orders[id].status =>
                orders[id].assignedToId = me]_vars

(***************************************************************************)
(* Properties of the order model (SpecOrderModel)                          *)
(***************************************************************************)

\* C30: after any sequence of create, assign, updateStatus, markDelivered,
\* initiateRTO and markRTOReceived every order has at least one status-log
\* entry, and its status is the status of the entry written last.
C30_StatusIsLastLogged ==
  \A id \in DOMAIN orders :
    /\ Len(orders[id].statusLogs) >= 1
    /\ orders[id].status = orders[id].statusLogs[Len(orders[id].statusLogs)].status

====
